---- MODULE Spec2Model ----
(***************************************************************************)
(* Model of the sharded hotspot tracker of src/main.go: the MinHeap of     *)
(* *KeyFreq records, the per-shard top-N store, the FNV-1a shard router    *)
(* and the aggregation over shards.  KeyFreq records are heap objects      *)
(* shared by pointer, so they live in a store (kfs) indexed by address and *)
(* a heap is a sequence of addresses.                                      *)
(***************************************************************************)
EXTENDS Integers, Sequences, FiniteSets, TLC

\* ---------------------------------------------------------------- bounds
NumKeys == 3
MaxTopN == 3
MaxShards == 2
MaxFreq == 3
NumThreads == 2
ConcKeys == 2

\* smallest constructor argument that is tried (covers zero and negative)
MinArg == -1

KeyNames == <<"a", "b", "c", "d", "e", "f">>
AllKeys == {KeyNames[i] : i \in 1..Len(KeyNames)}
Keys == {KeyNames[i] : i \in 1..NumKeys}

\* the goroutines that call into the tracker, and the keys they use
Threads == 1..NumThreads
CKeys == {KeyNames[i] : i \in 1..ConcKeys}

\* the tracker that the concurrent callers share: NewHotspotTracker(2, 2)
ConcTopN == 2
ConcShards == 2

\* the byte of each (one-character) key
KeyByte == [k \in {KeyNames[i] : i \in 1..Len(KeyNames)} |->
              CASE k = "a" -> 97 [] k = "b" -> 98 [] k = "c" -> 99
                [] k = "d" -> 100 [] k = "e" -> 101 [] k = "f" -> 102]

\* ------------------------------------------------------------- variables
VARIABLES
  phase,      \* "new" (no tracker yet), "live", "panic" (the process crashed)
  topN,       \* HotspotTracker.topN
  numShards,  \* HotspotTracker.numShards
  shards,     \* HotspotTracker.shards: 0..numShards-1 -> [topN, minHeap, keyFreqs]
  kfs,        \* the KeyFreq objects: address -> [Key, Frequency, Index]
  lastOp,     \* the operation that ran last
  ret,        \* the keys it returned, if it was GetHotspots
  found,      \* the answer it returned, if it was IsHotspot
  withCache,  \* HotspotTracker.withCache
  update,     \* HotspotTracker.update, the staleness flag
  cache,      \* HotspotTracker.cache
  muReaders,  \* HotspotTracker.mu: the goroutines holding it in shared mode
  sLock,      \* shard.mu of every shard: [readers, writer]
  pc,         \* where each goroutine is in its call
  call,       \* the call each goroutine is in: [op, key]
  si,         \* aggregateShards: the index of the shard being visited
  tShard,     \* aggregateShards: the aggregate each goroutine is building
  stop,       \* HotspotTracker.stop: "nil", "open" or "closed"
  ticker,     \* the goroutine of startTicker: "none", "running" or "done"
  recorded,   \* history: the keys that shard.RecordRequest has been given
  pos,        \* history: how many keys of the scenario have been applied
  calls,      \* history: per key, the RecordRequest calls since it was admitted
  requests,   \* history: per key, all its RecordRequest calls (to MaxFreq + 1)
  unsharded,  \* the unsharded HotspotTracker: [topN, minHeap, keyFreqs]
  ukfs        \* the KeyFreq objects of the unsharded tracker

tracker == <<phase, topN, numShards, shards, kfs, lastOp, ret, found>>
wrapper == <<withCache, update, cache, stop, ticker>>
history == <<recorded, pos, calls, requests>>
reference == <<unsharded, ukfs>>
locks == <<muReaders, sLock>>
goroutines == <<pc, call, si, tShard>>
vars == <<tracker, wrapper, history, reference, locks, goroutines>>

\* ------------------------------------------------------------ Go helpers
\* Go's integer division truncates toward zero
GoDiv(a, b) == IF a >= 0 THEN a \div b ELSE -((-a) \div b)

Range(s) == {s[i] : i \in 1..Len(s)}

RECURSIVE Xor(_, _)
Xor(a, b) == IF a = 0 THEN b
             ELSE IF b = 0 THEN a
             ELSE (((a % 2) + (b % 2)) % 2) + 2 * Xor(a \div 2, b \div 2)

\* ----------------------------------------------------- MinHeap (Interface)
\* A heap context m is [h |-> sequence of addresses, r |-> object store].
\* Indices are Go's, 0-based.
At(m, i) == m.h[i + 1]

\* Less with the comparison turned around (a max-heap)
LessReversed(m, i, j) ==
  IF i >= Len(m.h) \/ j >= Len(m.h) THEN FALSE
  ELSE m.r[At(m, i)].Frequency > m.r[At(m, j)].Frequency

Less(m, i, j) ==
  IF i >= Len(m.h) \/ j >= Len(m.h) THEN FALSE
  ELSE m.r[At(m, i)].Frequency < m.r[At(m, j)].Frequency

Swap(m, i, j) ==
  IF i >= Len(m.h) \/ j >= Len(m.h) THEN m
  ELSE LET a == At(m, i)
           b == At(m, j)
           r1 == [m.r EXCEPT ![b].Index = i]
       IN [h |-> [m.h EXCEPT ![i + 1] = b, ![j + 1] = a],
           r |-> [r1 EXCEPT ![a].Index = j]]

Push(m, x) ==
  [h |-> Append(m.h, x), r |-> [m.r EXCEPT ![x].Index = Len(m.h)]]

\* MinHeap.Pop clearing the wrong field of the item it drops
PopClearsFrequency(m) ==
  LET n == Len(m.h)
      item == m.h[n]
  IN [h |-> SubSeq(m.h, 1, n - 1),
      r |-> [m.r EXCEPT ![item].Frequency = -1],
      item |-> item]

\* MinHeap.Pop: drops the last element, returns it as item
Pop(m) ==
  LET n == Len(m.h)
      item == m.h[n]
  IN [h |-> SubSeq(m.h, 1, n - 1),
      r |-> [m.r EXCEPT ![item].Index = -1],
      item |-> item]

\* ------------------------------------------------ container/heap functions
RECURSIVE up(_, _)
up(m, j) ==
  LET i == GoDiv(j - 1, 2)
  IN IF i = j \/ ~Less(m, j, i) THEN m
     ELSE up(Swap(m, i, j), i)

\* the loop of heap.down; yields the context and the final position
RECURSIVE downLoop(_, _, _)
downLoop(m, i, n) ==
  LET j1 == 2 * i + 1
  IN IF j1 >= n \/ j1 < 0 THEN [m |-> m, i |-> i]
     ELSE LET j2 == j1 + 1
              j == IF j2 < n /\ Less(m, j2, j1) THEN j2 ELSE j1
          IN IF ~Less(m, j, i) THEN [m |-> m, i |-> i]
             ELSE downLoop(Swap(m, i, j), j, n)

down(m, i0, n) ==
  LET d == downLoop(m, i0, n)
  IN [m |-> d.m, moved |-> d.i > i0]

RECURSIVE heapInitLoop(_, _, _)
heapInitLoop(m, i, n) ==
  IF i < 0 THEN m
  ELSE heapInitLoop(down(m, i, n).m, i - 1, n)

heapInit(m) ==
  LET n == Len(m.h)
  IN heapInitLoop(m, GoDiv(n, 2) - 1, n)

\* heap.Push without the sift-up of the new element
heapPushNoUp(m, x) == Push(m, x)

heapPush(m, x) ==
  LET p == Push(m, x)
  IN up(p, Len(p.h) - 1)

\* heap.Pop taking the last element of the slice instead of the root
heapPopLast(m) == Pop(m)

heapPop(m) ==
  LET n == Len(m.h) - 1
      s == Swap(m, 0, n)
  IN Pop(down(s, 0, n).m)

heapFix(m, i) ==
  LET d == down(m, i, Len(m.h))
  IN IF ~d.moved THEN up(d.m, i) ELSE d.m

\* ------------------------------------------------------------ allocation
\* A new object takes the lowest address that is not in use.
RECURSIVE FirstFree(_, _)
FirstFree(used, a) == IF a \notin used THEN a ELSE FirstFree(used, a + 1)

NewKeyFreq(r, key) ==
  LET a == FirstFree(DOMAIN r, 1)
  IN [addr |-> a,
      r |-> [x \in (DOMAIN r) \cup {a} |->
               IF x = a THEN [Key |-> key, Frequency |-> 1, Index |-> 0]
               ELSE r[x]]]

\* ---------------------------------------------------------------- shards
NewShard(n) == [topN |-> n, minHeap |-> <<>>, keyFreqs |-> <<>>]

MapPut(f, k, v) == [x \in (DOMAIN f) \cup {k} |-> IF x = k THEN v ELSE f[x]]
MapDelete(f, k) == [x \in (DOMAIN f) \ {k} |-> f[x]]

\* processKeyFreq admitting while len(minHeap) <= topN (one record too many)
processKeyFreqOffByOne(s, r, kf) ==
  IF Len(s.minHeap) <= s.topN
  THEN LET m == heapPush([h |-> s.minHeap, r |-> r], kf)
       IN [s |-> [s EXCEPT !.minHeap = m.h,
                           !.keyFreqs = MapPut(s.keyFreqs, r[kf].Key, kf)],
           r |-> m.r, panic |-> FALSE]
  ELSE IF Len(s.minHeap) = 0
  THEN [s |-> s, r |-> r, panic |-> TRUE]
  ELSE IF r[s.minHeap[1]].Frequency <= r[kf].Frequency
  THEN LET p == heapPop([h |-> s.minHeap, r |-> r])
           m == heapPush([h |-> p.h, r |-> p.r], kf)
       IN [s |-> [s EXCEPT !.minHeap = m.h,
                           !.keyFreqs = MapPut(MapDelete(s.keyFreqs, r[p.item].Key),
                                               r[kf].Key, kf)],
           r |-> m.r, panic |-> FALSE]
  ELSE [s |-> s, r |-> r, panic |-> FALSE]

\* processKeyFreq whose eviction branch forgets keyFreqs[kf.Key] = kf
processKeyFreqNoMapPut(s, r, kf) ==
  IF Len(s.minHeap) < s.topN
  THEN LET m == heapPush([h |-> s.minHeap, r |-> r], kf)
       IN [s |-> [s EXCEPT !.minHeap = m.h,
                           !.keyFreqs = MapPut(s.keyFreqs, r[kf].Key, kf)],
           r |-> m.r, panic |-> FALSE]
  ELSE IF Len(s.minHeap) = 0
  THEN [s |-> s, r |-> r, panic |-> TRUE]
  ELSE IF r[s.minHeap[1]].Frequency <= r[kf].Frequency
  THEN LET p == heapPop([h |-> s.minHeap, r |-> r])
           m == heapPush([h |-> p.h, r |-> p.r], kf)
       IN [s |-> [s EXCEPT !.minHeap = m.h,
                           !.keyFreqs = MapDelete(s.keyFreqs, r[p.item].Key)],
           r |-> m.r, panic |-> FALSE]
  ELSE [s |-> s, r |-> r, panic |-> FALSE]

\* processKeyFreq evicting only for a strictly greater frequency
processKeyFreqStrict(s, r, kf) ==
  IF Len(s.minHeap) < s.topN
  THEN LET m == heapPush([h |-> s.minHeap, r |-> r], kf)
       IN [s |-> [s EXCEPT !.minHeap = m.h,
                           !.keyFreqs = MapPut(s.keyFreqs, r[kf].Key, kf)],
           r |-> m.r, panic |-> FALSE]
  ELSE IF Len(s.minHeap) = 0
  THEN [s |-> s, r |-> r, panic |-> TRUE]
  ELSE IF r[s.minHeap[1]].Frequency < r[kf].Frequency
  THEN LET p == heapPop([h |-> s.minHeap, r |-> r])
           m == heapPush([h |-> p.h, r |-> p.r], kf)
       IN [s |-> [s EXCEPT !.minHeap = m.h,
                           !.keyFreqs = MapPut(MapDelete(s.keyFreqs, r[p.item].Key),
                                               r[kf].Key, kf)],
           r |-> m.r, panic |-> FALSE]
  ELSE [s |-> s, r |-> r, panic |-> FALSE]

\* processKeyFreq with the comparison of the eviction test turned around
processKeyFreqEvictsLarger(s, r, kf) ==
  IF Len(s.minHeap) < s.topN
  THEN LET m == heapPush([h |-> s.minHeap, r |-> r], kf)
       IN [s |-> [s EXCEPT !.minHeap = m.h,
                           !.keyFreqs = MapPut(s.keyFreqs, r[kf].Key, kf)],
           r |-> m.r, panic |-> FALSE]
  ELSE IF Len(s.minHeap) = 0
  THEN [s |-> s, r |-> r, panic |-> TRUE]
  ELSE IF r[s.minHeap[1]].Frequency >= r[kf].Frequency
  THEN LET p == heapPop([h |-> s.minHeap, r |-> r])
           m == heapPush([h |-> p.h, r |-> p.r], kf)
       IN [s |-> [s EXCEPT !.minHeap = m.h,
                           !.keyFreqs = MapPut(MapDelete(s.keyFreqs, r[p.item].Key),
                                               r[kf].Key, kf)],
           r |-> m.r, panic |-> FALSE]
  ELSE [s |-> s, r |-> r, panic |-> FALSE]

\* processKeyFreq(tShard, kf): yields the shard, the object store and
\* whether the index expression minHeap[0] went out of range (panic)
processKeyFreq(s, r, kf) ==
  IF Len(s.minHeap) < s.topN
  THEN LET m == heapPush([h |-> s.minHeap, r |-> r], kf)
       IN [s |-> [s EXCEPT !.minHeap = m.h,
                           !.keyFreqs = MapPut(s.keyFreqs, r[kf].Key, kf)],
           r |-> m.r, panic |-> FALSE]
  ELSE IF Len(s.minHeap) = 0
  THEN [s |-> s, r |-> r, panic |-> TRUE]
  ELSE IF r[s.minHeap[1]].Frequency <= r[kf].Frequency
  THEN LET p == heapPop([h |-> s.minHeap, r |-> r])
           m == heapPush([h |-> p.h, r |-> p.r], kf)
       IN [s |-> [s EXCEPT !.minHeap = m.h,
                           !.keyFreqs = MapPut(MapDelete(s.keyFreqs, r[p.item].Key),
                                               r[kf].Key, kf)],
           r |-> m.r, panic |-> FALSE]
  ELSE [s |-> s, r |-> r, panic |-> FALSE]

\* shard.RecordRequest counting a request for a tracked key twice
shardRecordRequestCountsTwice(s, r, key) ==
  IF key \in DOMAIN s.keyFreqs
  THEN LET kf == s.keyFreqs[key]
           r1 == [r EXCEPT ![kf].Frequency = @ + 2]
           m == heapFix([h |-> s.minHeap, r |-> r1], r1[kf].Index)
       IN [s |-> [s EXCEPT !.minHeap = m.h], r |-> m.r, panic |-> FALSE]
  ELSE LET n == NewKeyFreq(r, key)
       IN processKeyFreq(s, n.r, n.addr)

\* shard.RecordRequest(key)
shardRecordRequest(s, r, key) ==
  IF key \in DOMAIN s.keyFreqs
  THEN LET kf == s.keyFreqs[key]
           r1 == [r EXCEPT ![kf].Frequency = @ + 1]
           m == heapFix([h |-> s.minHeap, r |-> r1], r1[kf].Index)
       IN [s |-> [s EXCEPT !.minHeap = m.h], r |-> m.r, panic |-> FALSE]
  ELSE LET n == NewKeyFreq(r, key)
       IN processKeyFreq(s, n.r, n.addr)

\* shard.GetHotspots(): heap-sorts a copy of the slice of pointers
RECURSIVE popAll(_, _, _)
popAll(m, i, out) ==
  IF i = 0 THEN [hotspots |-> out, r |-> m.r]
  ELSE LET p == heapPop(m)
       IN popAll([h |-> p.h, r |-> p.r], i - 1, Append(out, p.r[p.item].Key))

shardGetHotspots(s, r) ==
  LET minHeapCopy == heapInit([h |-> s.minHeap, r |-> r])
  IN popAll(minHeapCopy, Len(s.minHeap), <<>>)

\* shard.IsHotspot with the test turned around
shardIsHotspotNegated(s, key) == key \notin DOMAIN s.keyFreqs

\* shard.IsHotspot(key)
shardIsHotspot(s, key) == key \in DOMAIN s.keyFreqs

\* --------------------------------------------------------------- tracker
\* hash/fnv New32a over the key's single byte, in 16-bit limbs
FnvOffsetHi == 33052
FnvOffsetLo == 40389
FnvPrimeLo == 403

Fnv32a(key) ==
  LET x == Xor(FnvOffsetLo, KeyByte[key])
      p == x * FnvPrimeLo
      lo == p % 65536
      hi == ((FnvOffsetHi * FnvPrimeLo) + (p \div 65536) + ((x % 256) * 256)) % 65536
  IN [hi |-> hi, lo |-> lo]

\* a router that also looks at the load: the number of records alive
shardIndexByLoad(key, n) ==
  LET v == Fnv32a(key)
  IN (((v.hi % n) * (65536 % n)) + v.lo + Cardinality(DOMAIN kfs)) % n

\* int(hashValue) % numShards with a 64-bit int (the value stays >= 0)
shardIndex(key, n) ==
  LET v == Fnv32a(key)
  IN (((v.hi % n) * (65536 % n)) + v.lo) % n

\* the inner loop of aggregateShards over one shard's minHeap
RECURSIVE aggregateHeap(_, _, _, _)
aggregateHeap(t, r, h, i) ==
  IF i > Len(h) THEN [s |-> t, r |-> r]
  ELSE LET p == processKeyFreq(t, r, h[i])
       IN aggregateHeap(p.s, p.r, h, i + 1)

\* the loop of aggregateShards stopping one shard early
RECURSIVE aggregateFromSkipsLast(_, _, _, _, _)
aggregateFromSkipsLast(t, r, shs, i, n) ==
  IF i >= n - 1 THEN [s |-> t, r |-> r]
  ELSE LET a == aggregateHeap(t, r, shs[i].minHeap, 1)
       IN aggregateFromSkipsLast(a.s, a.r, shs, i + 1, n)

\* the loop of aggregateShards over the shards
RECURSIVE aggregateFrom(_, _, _, _, _)
aggregateFrom(t, r, shs, i, n) ==
  IF i >= n THEN [s |-> t, r |-> r]
  ELSE LET a == aggregateHeap(t, r, shs[i].minHeap, 1)
       IN aggregateFrom(a.s, a.r, shs, i + 1, n)

aggregateShards(shs, r, n, tn) == aggregateFrom(NewShard(tn), r, shs, 0, n)

\* HotspotTracker.GetHotspots without the cache: AggregateData, then the
\* aggregate shard's GetHotspots
trackerGetHotspots(shs, r, n, tn) ==
  LET a == aggregateShards(shs, r, n, tn)
  IN shardGetHotspots(a.s, a.r)

\* HotspotTracker.IsHotspot without the cache
trackerIsHotspot(shs, r, n, tn, key) ==
  LET a == aggregateShards(shs, r, n, tn)
  IN [exists |-> shardIsHotspot(a.s, key), r |-> a.r]

\* objects no longer referenced by any shard are garbage
Live(shs) == UNION {Range(shs[i].minHeap) : i \in DOMAIN shs}
Collect(r, live) == [x \in (DOMAIN r) \cap live |-> r[x]]

\* ------------------------------------------------------------------ Init
NoCall == [op |-> "none", key |-> ""]

\* a nil *shard
NilShard == [topN |-> 0, minHeap |-> <<>>, keyFreqs |-> <<>>]

Init ==
  /\ phase = "new"
  /\ topN = 0
  /\ numShards = 0
  /\ shards = <<>>
  /\ kfs = <<>>
  /\ lastOp = [op |-> "none", key |-> ""]
  /\ ret = <<>>
  /\ found = FALSE
  /\ withCache = FALSE
  /\ update = FALSE
  /\ cache = NilShard
  /\ stop = "nil"
  /\ ticker = "none"
  /\ recorded = {}
  /\ pos = 0
  /\ calls = [k \in AllKeys |-> 0]
  /\ requests = [k \in AllKeys |-> 0]
  /\ unsharded = NilShard
  /\ ukfs = <<>>
  /\ muReaders = {}
  /\ sLock = <<>>
  /\ pc = [t \in Threads |-> "idle"]
  /\ call = [t \in Threads |-> NoCall]
  /\ si = [t \in Threads |-> 0]
  /\ tShard = [t \in Threads |-> NilShard]

\* NewHotspotTracker(topN, numShards); make() panics on a negative length
NewHotspotTracker(n, sc) ==
  /\ phase = "new"
  /\ IF sc < 0
     THEN /\ phase' = "panic"
          /\ UNCHANGED <<topN, numShards, shards>>
     ELSE /\ phase' = "live"
          /\ topN' = n
          /\ numShards' = sc
          /\ shards' = [i \in 0..(sc - 1) |-> NewShard(n)]
  /\ lastOp' = [op |-> "NewHotspotTracker", key |-> ""]
  /\ UNCHANGED <<kfs, ret, found, wrapper, history, reference, locks, goroutines>>

\* key has a record in the map of one of the shards
TrackedIn(shs, key) == \E i \in DOMAIN shs : key \in DOMAIN shs[i].keyFreqs

\* the history of calls after shard.RecordRequest(key) took the shards from
\* before to after: the call is the first for a key that was not tracked
\* and one more for a key that was; a key that is not tracked has none
Counted(key, before, after) ==
  [k \in AllKeys |->
     IF ~TrackedIn(after, k) THEN 0
     ELSE IF k # key THEN calls[k]
     ELSE IF TrackedIn(before, k) THEN calls[k] + 1
     ELSE 1]

\* the history of requests after one more call for key; the count stops
\* at MaxFreq + 1, which stands for every larger number
Requested(key) ==
  [requests EXCEPT ![key] = IF @ > MaxFreq THEN @ ELSE @ + 1]

\* the effect of HotspotTracker.RecordRequest(key) on the tracker
Record(key) ==
  /\ phase = "live"
  /\ lastOp' = [op |-> "RecordRequest", key |-> key]
  /\ ret' = <<>>
  /\ found' = FALSE
  /\ recorded' = recorded \cup {key}
  /\ UNCHANGED <<topN, numShards, wrapper, locks, goroutines>>
  /\ IF numShards = 0
     THEN /\ phase' = "panic"
          /\ UNCHANGED <<shards, kfs>>
     ELSE LET i == shardIndex(key, numShards)
              s == shards[i]
              o == shardRecordRequest(s, kfs, key)
          IN /\ IF o.panic
                THEN /\ phase' = "panic"
                     /\ UNCHANGED <<shards, kfs>>
                ELSE /\ phase' = phase
                     /\ shards' = [shards EXCEPT ![i] = o.s]
                     /\ kfs' = Collect(o.r, Live(shards'))
  /\ calls' = IF phase' = "live" THEN Counted(key, shards, shards') ELSE calls
  /\ requests' = IF phase' = "live" THEN Requested(key) ELSE requests

\* the counters are bounded: a key is recorded until it has been counted
\* MaxFreq times
CanCount(key) ==
  numShards > 0 =>
    LET s == shards[shardIndex(key, numShards)]
    IN key \in DOMAIN s.keyFreqs => kfs[s.keyFreqs[key]].Frequency < MaxFreq

\* HotspotTracker.RecordRequest(key)
RecordRequest(key) ==
  /\ CanCount(key)
  /\ Record(key)
  /\ UNCHANGED <<pos, reference>>

\* HotspotTracker.GetHotspots()
GetHotspots ==
  /\ phase = "live"
  /\ LET g == trackerGetHotspots(shards, kfs, numShards, topN)
     IN /\ ret' = g.hotspots
        /\ kfs' = g.r
  /\ found' = FALSE
  /\ lastOp' = [op |-> "GetHotspots", key |-> ""]
  /\ UNCHANGED <<phase, topN, numShards, shards, wrapper, history, reference, locks, goroutines>>

\* HotspotTracker.IsHotspot(key)
IsHotspot(key) ==
  /\ phase = "live"
  /\ LET a == trackerIsHotspot(shards, kfs, numShards, topN, key)
     IN /\ found' = a.exists
        /\ ret' = <<>>
        /\ kfs' = a.r
  /\ lastOp' = [op |-> "IsHotspot", key |-> key]
  /\ UNCHANGED <<phase, topN, numShards, shards, wrapper, history, reference, locks, goroutines>>

Next ==
  \/ \E n \in MinArg..MaxTopN, sc \in MinArg..MaxShards : NewHotspotTracker(n, sc)
  \/ \E k \in Keys : RecordRequest(k)
  \/ GetHotspots
  \/ \E k \in Keys : IsHotspot(k)

Spec == Init /\ [][Next]_vars

\* ------------------------------------------------------------ scenario 1
\* TestHotspotTracker and main: a tracker with topN = 3 is given the keys
\* of ScenarioKeys in order and is read afterwards.  The reads may start
\* after any prefix of the keys; no key is recorded after a read.
ScenarioTopN == 3
ScenarioMaxShards == 2
ScenarioKeys == <<"a", "b", "c", "a", "a", "b", "d", "d", "d", "d", "e", "f", "e">>

ScenarioRecord ==
  /\ pos < Len(ScenarioKeys)
  /\ lastOp.op \notin {"GetHotspots", "IsHotspot"}
  /\ Record(ScenarioKeys[pos + 1])
  /\ pos' = pos + 1
  /\ UNCHANGED reference

NextScenario ==
  \/ \E sc \in 1..ScenarioMaxShards : NewHotspotTracker(ScenarioTopN, sc)
  \/ ScenarioRecord
  \/ GetHotspots
  \/ \E k \in Range(ScenarioKeys) : IsHotspot(k)

SpecScenario == Init /\ [][NextScenario]_vars

\* -------------------------------------------------- unsharded tracker
\* The tracker before sharding (one heap, one map, one lock), run next to
\* the sharded tracker built with one shard and given the same calls.  Its
\* reads run under the read lock and write nothing, so only RecordRequest
\* is a step of it.  Its MinHeap has no range checks in Less and Swap;
\* container/heap calls them with indices inside the slice, except from
\* heap.Fix when kf.Index >= len, where Less panics.

\* NewHotspotTracker(topN) of the unsharded tracker
NewUnshardedTracker(n) == [topN |-> n, minHeap |-> <<>>, keyFreqs |-> <<>>]

\* RecordRequest(key) of the unsharded tracker
unshardedRecordRequest(u, r, key) ==
  IF key \in DOMAIN u.keyFreqs
  THEN LET kf == u.keyFreqs[key]
           r1 == [r EXCEPT ![kf].Frequency = @ + 1]
           m == heapFix([h |-> u.minHeap, r |-> r1], r1[kf].Index)
       IN [s |-> [u EXCEPT !.minHeap = m.h], r |-> m.r,
           panic |-> r1[kf].Index >= Len(u.minHeap)]
  ELSE LET n == NewKeyFreq(r, key)
           kf == n.addr
       IN IF Len(u.minHeap) < u.topN
          THEN LET m == heapPush([h |-> u.minHeap, r |-> n.r], kf)
               IN [s |-> [u EXCEPT !.minHeap = m.h,
                                   !.keyFreqs = MapPut(u.keyFreqs, key, kf)],
                   r |-> m.r, panic |-> FALSE]
          ELSE IF Len(u.minHeap) = 0
          THEN [s |-> u, r |-> r, panic |-> TRUE]
          ELSE IF n.r[u.minHeap[1]].Frequency <= n.r[kf].Frequency
          THEN LET p == heapPop([h |-> u.minHeap, r |-> n.r])
                   m == heapPush([h |-> p.h, r |-> p.r], kf)
               IN [s |-> [u EXCEPT !.minHeap = m.h,
                                   !.keyFreqs = MapPut(MapDelete(u.keyFreqs,
                                                                 n.r[p.item].Key),
                                                       key, kf)],
                   r |-> m.r, panic |-> FALSE]
          ELSE [s |-> u, r |-> r, panic |-> FALSE]

\* IsHotspot(key) of the unsharded tracker
unshardedIsHotspot(u, key) == key \in DOMAIN u.keyFreqs

\* both trackers after construction with the same topN, the sharded one with
\* a single shard and no cache
InitPair ==
  /\ phase = "live"
  /\ topN \in 1..MaxTopN
  /\ numShards = 1
  /\ shards = [i \in {0} |-> NewShard(topN)]
  /\ kfs = <<>>
  /\ lastOp = [op |-> "NewHotspotTracker", key |-> ""]
  /\ ret = <<>>
  /\ found = FALSE
  /\ withCache = FALSE
  /\ update = FALSE
  /\ cache = NilShard
  /\ stop = "nil"
  /\ ticker = "none"
  /\ recorded = {}
  /\ pos = 0
  /\ calls = [k \in AllKeys |-> 0]
  /\ requests = [k \in AllKeys |-> 0]
  /\ unsharded = NewUnshardedTracker(topN)
  /\ ukfs = <<>>
  /\ muReaders = {}
  /\ sLock = <<>>
  /\ pc = [t \in Threads |-> "idle"]
  /\ call = [t \in Threads |-> NoCall]
  /\ si = [t \in Threads |-> 0]
  /\ tShard = [t \in Threads |-> NilShard]

\* RecordRequest(key) on both trackers; a tracker that panicked is gone
PairRecordRequest(key) ==
  /\ CanCount(key)
  /\ key \in DOMAIN unsharded.keyFreqs =>
       ukfs[unsharded.keyFreqs[key]].Frequency < MaxFreq
  /\ Record(key)
  /\ LET o == unshardedRecordRequest(unsharded, ukfs, key)
     IN /\ unsharded' = IF o.panic THEN NilShard ELSE o.s
        /\ ukfs' = IF o.panic THEN <<>> ELSE Collect(o.r, Range(o.s.minHeap))
  /\ UNCHANGED pos

NextPair ==
  \/ \E k \in Keys : PairRecordRequest(k)
  \/ GetHotspots
  \/ \E k \in Keys : IsHotspot(k)

SpecPair == InitPair /\ [][NextPair]_vars

\* ------------------------------------------------- concurrent goroutines
\* NumThreads goroutines call into one tracker.  A call is cut at its lock
\* operations: the code between taking a lock and releasing it is one step,
\* taken when the lock is released; between the two the goroutine is inside
\* that section.  The last section of a read (the aggregate shard's
\* GetHotspots/IsHotspot) runs under no lock of the tracker.

FreeLock == [readers |-> {}, writer |-> 0]

\* the state after NewHotspotTracker(ConcTopN, ConcShards), with or without
\* .WithCache(interval)
InitConc ==
  /\ phase = "live"
  /\ topN = ConcTopN
  /\ numShards = ConcShards
  /\ shards = [i \in 0..(ConcShards - 1) |-> NewShard(ConcTopN)]
  /\ kfs = <<>>
  /\ lastOp = [op |-> "NewHotspotTracker", key |-> ""]
  /\ ret = <<>>
  /\ found = FALSE
  /\ withCache \in BOOLEAN
  /\ update = withCache
  /\ cache = IF withCache THEN NewShard(ConcTopN) ELSE NilShard
  /\ stop = IF withCache THEN "open" ELSE "nil"
  /\ ticker = IF withCache THEN "running" ELSE "none"
  /\ recorded = {}
  /\ pos = 0
  /\ calls = [k \in AllKeys |-> 0]
  /\ requests = [k \in AllKeys |-> 0]
  /\ unsharded = NilShard
  /\ ukfs = <<>>
  /\ muReaders = {}
  /\ sLock = [i \in 0..(ConcShards - 1) |-> FreeLock]
  /\ pc = [t \in Threads |-> "idle"]
  /\ call = [t \in Threads |-> NoCall]
  /\ si = [t \in Threads |-> 0]
  /\ tShard = [t \in Threads |-> NilShard]

\* sync.RWMutex: a goroutine blocked in Lock() keeps later RLock() calls out
MuLockPending == \E u \in Threads : pc[u] = "ad_lock"
MuCanRLock == ~MuLockPending
MuCanLock == muReaders = {}

ShardLockPending(i) ==
  \E u \in Threads : pc[u] = "rr_lock" /\ shardIndex(call[u].key, numShards) = i
ShardCanRLock(i) == sLock[i].writer = 0 /\ ~ShardLockPending(i)
ShardCanLock(i) == sLock[i].writer = 0 /\ sLock[i].readers = {}

\* the aggregate a goroutine holds, as a set of KeyFreq addresses
Held(t) == Range(tShard[t].minHeap)

LiveConc(shs, ts) ==
  Live(shs) \cup UNION {Range(ts[t].minHeap) : t \in Threads}

\* --- the fields a goroutine accesses in the section it is inside
\* aggregateShards under shard si's RLock: heap.Push writes Index of every
\* KeyFreq it admits
AggAdmitted(t) ==
  LET a == aggregateHeap(tShard[t], kfs, shards[si[t]].minHeap, 1)
  IN Range(a.s.minHeap) \cap Range(shards[si[t]].minHeap)

\* shard.RecordRequest of an untracked key: heap.Pop writes Index of the
\* KeyFreq it evicts
RecordEvicted(t) ==
  LET key == call[t].key
      s == shards[shardIndex(key, numShards)]
  IN IF key \in DOMAIN s.keyFreqs THEN {}
     ELSE Range(s.minHeap) \ Range(shardRecordRequest(s, kfs, key).s.minHeap)

\* shard.GetHotspots pops every element, which sets its Index to -1
IndexWrites(t) ==
  CASE pc[t] = "agg_cs" -> AggAdmitted(t)
    [] pc[t] = "read" /\ call[t].op = "GetHotspots" -> Held(t)
    [] pc[t] = "rr_cs" -> RecordEvicted(t)
    [] OTHER -> {}

\* shard.RecordRequest of a tracked key reads kf.Index for heap.Fix
IndexReads(t) ==
  IF pc[t] = "rr_cs" /\ call[t].key \in DOMAIN shards[shardIndex(call[t].key, numShards)].keyFreqs
  THEN {shards[shardIndex(call[t].key, numShards)].keyFreqs[call[t].key]}
  ELSE {}

\* ... and increments kf.Frequency
FrequencyWrites(t) == IndexReads(t)

\* heap.Init/heap.Pop of shard.GetHotspots compare the Frequency of every
\* element once there are two of them
FrequencyReads(t) ==
  IF pc[t] = "read" /\ call[t].op = "GetHotspots" /\ Cardinality(Held(t)) >= 2
  THEN Held(t) ELSE {}

\* two goroutines are inside sections that access the same field, one of
\* them writing, and nothing orders the two sections
Races(t, u) ==
  \/ IndexWrites(t) \cap (IndexWrites(u) \cup IndexReads(u)) # {}
  \/ FrequencyWrites(t) \cap (FrequencyWrites(u) \cup FrequencyReads(u)) # {}

DataRace == \E t, u \in Threads : t # u /\ Races(t, u)

\* the values the read of kf.Index in shard.RecordRequest can yield
IndexValues(t, s, key) ==
  IF key \notin DOMAIN s.keyFreqs THEN {0}
  ELSE IF \E u \in Threads \ {t} : s.keyFreqs[key] \in IndexWrites(u)
  THEN (-1)..(topN - 1)
  ELSE {kfs[s.keyFreqs[key]].Index}

\* --- HotspotTracker.RecordRequest -> shard.RecordRequest
CallRecordRequest(t, key) ==
  /\ phase = "live"
  /\ pc[t] = "idle"
  /\ LET s == shards[shardIndex(key, numShards)]
     IN key \in DOMAIN s.keyFreqs => kfs[s.keyFreqs[key]].Frequency < MaxFreq
  /\ pc' = [pc EXCEPT ![t] = "rr_lock"]
  /\ call' = [call EXCEPT ![t] = [op |-> "RecordRequest", key |-> key]]
  /\ UNCHANGED <<tracker, wrapper, history, reference, locks, si, tShard>>

\* s.mu.Lock() preceded by ht.mu.RLock()
RecordLockTakesMu(t) ==
  /\ pc[t] = "rr_lock"
  /\ LET i == shardIndex(call[t].key, numShards)
     IN /\ ShardCanLock(i)
        /\ sLock' = [sLock EXCEPT ![i].writer = t]
  /\ muReaders' = muReaders \cup {t}
  /\ pc' = [pc EXCEPT ![t] = "rr_cs"]
  /\ UNCHANGED <<tracker, wrapper, history, reference, call, si, tShard>>

\* s.mu.Lock()
RecordLock(t) ==
  /\ pc[t] = "rr_lock"
  /\ LET i == shardIndex(call[t].key, numShards)
     IN /\ ShardCanLock(i)
        /\ sLock' = [sLock EXCEPT ![i].writer = t]
  /\ pc' = [pc EXCEPT ![t] = "rr_cs"]
  /\ UNCHANGED <<tracker, wrapper, history, reference, muReaders, call, si, tShard>>

\* the body of shard.RecordRequest and the deferred s.mu.Unlock().  A read
\* of kf.Index that races with another goroutine's writes yields any of the
\* values that goroutine writes.
RecordBody(t) ==
  /\ pc[t] = "rr_cs"
  /\ LET key == call[t].key
         i == shardIndex(key, numShards)
         s == shards[i]
     IN /\ \E idx \in IndexValues(t, s, key) :
             LET r0 == IF key \in DOMAIN s.keyFreqs
                       THEN [kfs EXCEPT ![s.keyFreqs[key]].Index = idx]
                       ELSE kfs
                 o == shardRecordRequest(s, r0, key)
             IN /\ shards' = [shards EXCEPT ![i] = o.s]
                /\ kfs' = Collect(o.r, LiveConc(shards', tShard))
                /\ phase' = IF o.panic THEN "panic" ELSE phase
        /\ sLock' = [sLock EXCEPT ![i].writer = 0]
  /\ pc' = [pc EXCEPT ![t] = "idle"]
  /\ call' = [call EXCEPT ![t] = NoCall]
  /\ lastOp' = [op |-> "RecordRequest", key |-> call[t].key]
  /\ ret' = <<>>
  /\ found' = FALSE
  /\ recorded' = recorded \cup {call[t].key}
  /\ calls' = IF phase' = "live" THEN Counted(call[t].key, shards, shards')
                                 ELSE calls
  /\ requests' = IF phase' = "live" THEN Requested(call[t].key) ELSE requests
  /\ UNCHANGED <<topN, numShards, wrapper, pos, reference, muReaders, si, tShard>>

\* --- HotspotTracker.GetHotspots / IsHotspot -> AggregateData
CallRead(t, op, key) ==
  /\ phase = "live"
  /\ pc[t] = "idle"
  /\ pc' = [pc EXCEPT ![t] = "ad_rlock"]
  /\ call' = [call EXCEPT ![t] = [op |-> op, key |-> key]]
  /\ UNCHANGED <<tracker, wrapper, history, reference, locks, si, tShard>>

\* ht.mu.RLock().  With the cache the goroutine goes on to ht.mu.Lock()
\* (main.go:151); without it, to aggregateShards.
AggregateDataRLock(t) ==
  /\ pc[t] = "ad_rlock"
  /\ MuCanRLock
  /\ muReaders' = muReaders \cup {t}
  /\ IF withCache
     THEN /\ pc' = [pc EXCEPT ![t] = "ad_lock"]
          /\ UNCHANGED <<si, tShard>>
     ELSE /\ pc' = [pc EXCEPT ![t] = "agg_rlock"]
          /\ si' = [si EXCEPT ![t] = 0]
          /\ tShard' = [tShard EXCEPT ![t] = NewShard(topN)]
  /\ UNCHANGED <<tracker, wrapper, history, reference, sLock, call>>

\* shard.mu.RLock() of the shard aggregateShards visits next
AggregateRLock(t) ==
  /\ pc[t] = "agg_rlock"
  /\ ShardCanRLock(si[t])
  /\ sLock' = [sLock EXCEPT ![si[t]].readers = @ \cup {t}]
  /\ pc' = [pc EXCEPT ![t] = "agg_cs"]
  /\ UNCHANGED <<tracker, wrapper, history, reference, muReaders, call, si, tShard>>

\* the loop over the shard's minHeap without shard.mu.RUnlock()
AggregateBodyKeepsLock(t) ==
  /\ pc[t] = "agg_cs"
  /\ LET a == aggregateHeap(tShard[t], kfs, shards[si[t]].minHeap, 1)
     IN /\ tShard' = [tShard EXCEPT ![t] = a.s]
        /\ kfs' = Collect(a.r, LiveConc(shards, tShard'))
  /\ si' = [si EXCEPT ![t] = @ + 1]
  /\ IF si[t] + 1 >= numShards
     THEN /\ pc' = [pc EXCEPT ![t] = "read"]
          /\ muReaders' = muReaders \ {t}
     ELSE /\ pc' = [pc EXCEPT ![t] = "agg_rlock"]
          /\ UNCHANGED muReaders
  /\ UNCHANGED <<phase, topN, numShards, shards, lastOp, ret, found, wrapper, history, reference, sLock, call>>

\* the loop over the shard's minHeap and shard.mu.RUnlock(); after the last
\* shard AggregateData returns, which runs its deferred ht.mu.RUnlock()
AggregateBody(t) ==
  /\ pc[t] = "agg_cs"
  /\ LET a == aggregateHeap(tShard[t], kfs, shards[si[t]].minHeap, 1)
     IN /\ tShard' = [tShard EXCEPT ![t] = a.s]
        /\ kfs' = Collect(a.r, LiveConc(shards, tShard'))
  /\ sLock' = [sLock EXCEPT ![si[t]].readers = @ \ {t}]
  /\ si' = [si EXCEPT ![t] = @ + 1]
  /\ IF si[t] + 1 >= numShards
     THEN /\ pc' = [pc EXCEPT ![t] = "read"]
          /\ muReaders' = muReaders \ {t}
     ELSE /\ pc' = [pc EXCEPT ![t] = "agg_rlock"]
          /\ UNCHANGED muReaders
  /\ UNCHANGED <<phase, topN, numShards, shards, lastOp, ret, found, wrapper, history, reference, call>>

\* aggregateShard.GetHotspots() or aggregateShard.IsHotspot(key), and return
ReadBody(t) ==
  /\ pc[t] = "read"
  /\ tShard' = [tShard EXCEPT ![t] = NilShard]
  /\ IF call[t].op = "GetHotspots"
     THEN LET g == shardGetHotspots(tShard[t], kfs)
          IN /\ ret' = g.hotspots
             /\ found' = FALSE
             /\ kfs' = Collect(g.r, LiveConc(shards, tShard'))
     ELSE /\ ret' = <<>>
          /\ found' = shardIsHotspot(tShard[t], call[t].key)
          /\ kfs' = Collect(kfs, LiveConc(shards, tShard'))
  /\ lastOp' = call[t]
  /\ pc' = [pc EXCEPT ![t] = "idle"]
  /\ call' = [call EXCEPT ![t] = NoCall]
  /\ si' = [si EXCEPT ![t] = 0]
  /\ UNCHANGED <<phase, topN, numShards, shards, wrapper, history, reference, locks>>

\* the goroutine of startTicker: case <-ticker.C
Tick ==
  /\ ticker = "running"
  /\ update' = TRUE
  /\ UNCHANGED <<tracker, withCache, cache, stop, ticker, history, reference, locks, goroutines>>

\* case <-ht.stop without the return: the loop goes on
TickerExitKeepsRunning ==
  /\ ticker = "running"
  /\ stop = "closed"
  /\ ticker' = "running"
  /\ UNCHANGED <<tracker, withCache, update, cache, stop, history, reference, locks, goroutines>>

\* the goroutine of startTicker: case <-ht.stop, which a closed channel
\* makes ready
TickerExit ==
  /\ ticker = "running"
  /\ stop = "closed"
  /\ ticker' = "done"
  /\ UNCHANGED <<tracker, withCache, update, cache, stop, history, reference, locks, goroutines>>

\* HotspotTracker.Close(), which its caller runs once
Close ==
  /\ phase = "live"
  /\ stop # "closed"
  /\ stop' = IF withCache THEN "closed" ELSE stop
  /\ UNCHANGED <<tracker, withCache, update, cache, ticker, history, reference, locks, goroutines>>

Step(t) ==
  \/ \E k \in CKeys : CallRecordRequest(t, k)
  \/ RecordLock(t)
  \/ RecordBody(t)
  \/ CallRead(t, "GetHotspots", "")
  \/ \E k \in CKeys : CallRead(t, "IsHotspot", k)
  \/ AggregateDataRLock(t)
  \/ AggregateRLock(t)
  \/ AggregateBody(t)
  \/ ReadBody(t)

NextConc ==
  \/ \E t \in Threads : Step(t)
  \/ Tick
  \/ TickerExit
  \/ Close

SpecConc == InitConc /\ [][NextConc]_vars

\* whether goroutine t can take its next step: a goroutine waits only for a
\* lock, and one inside ht.mu.Lock() at main.go:151 waits for itself
Runnable(t) ==
  CASE pc[t] = "idle" -> phase = "live"
    [] pc[t] = "rr_lock" -> ShardCanLock(shardIndex(call[t].key, numShards))
    [] pc[t] = "ad_rlock" -> MuCanRLock
    [] pc[t] = "ad_lock" -> FALSE
    [] pc[t] = "agg_rlock" -> ShardCanRLock(si[t])
    [] OTHER -> TRUE

\* SF_vars(Step(t)), written out: Runnable(t) is ENABLED <<Step(t)>>_vars,
\* and the steps that change pc[t] are the steps of Step(t).  The Go
\* scheduler runs every runnable goroutine and sync.RWMutex hands the lock
\* to every waiter in turn, so a goroutine that can take a step infinitely
\* often takes one.
Scheduled(t) == <>[](~Runnable(t)) \/ []<><<pc'[t] # pc[t]>>_vars

\* The select of the ticker goroutine picks among its ready cases at random,
\* so it takes the case of the closed channel in the end.
FairSpecConc ==
  /\ SpecConc
  /\ \A t \in Threads : Scheduled(t)
  /\ WF_vars(TickerExit)

\* ------------------------------------------------- properties of the tracker
Positive == phase = "live" /\ topN >= 1 /\ numShards >= 1

\* the keys a shard tracks, read from its heap
HeapKeys(s) == {kfs[s.minHeap[i]].Key : i \in 1..Len(s.minHeap)}

\* every key tracked in some shard
Tracked == UNION {HeapKeys(shards[i]) : i \in DOMAIN shards}

\* the frequency of a key tracked in its shard
FreqOf(key) == kfs[shards[shardIndex(key, numShards)].keyFreqs[key]].Frequency

\* the answer IsHotspot(key) gives in the current state
IsHotspotNow(key) == trackerIsHotspot(shards, kfs, numShards, topN, key).exists

AfterGetHotspots == Positive /\ lastOp.op = "GetHotspots"

\* C1: on a tracker built with topN >= 1 and numShards >= 1 every
\* GetHotspots() result has at most topN keys, and IsHotspot answers true
\* for each of them when asked right after it.
BoundInvariant ==
  AfterGetHotspots =>
    /\ Len(ret) <= topN
    /\ \A k \in Range(ret) : IsHotspotNow(k)

\* C1 witness: a full result, returned while the shards track more than topN keys
BoundWitness ==
  /\ AfterGetHotspots
  /\ Len(ret) = topN
  /\ Cardinality(Tracked) > topN

\* C2: with no write in between, IsHotspot(key) is true exactly for the
\* keys that GetHotspots() returned, for recorded and unrecorded keys alike.
MembershipAgreement ==
  AfterGetHotspots =>
    \A k \in Keys : IsHotspotNow(k) <=> k \in Range(ret)

\* C2 witness: the result holds some key and leaves out a key that a shard tracks
MembershipWitness ==
  /\ AfterGetHotspots
  /\ ret # <<>>
  /\ \E k \in Tracked : k \notin Range(ret) /\ ~IsHotspotNow(k)

\* C3: the keys of a GetHotspots() result come in non-decreasing frequency.
AscendingOrder ==
  AfterGetHotspots =>
    \A i \in 1..(Len(ret) - 1) : FreqOf(ret[i]) <= FreqOf(ret[i + 1])

\* C3 witness: a result whose first and last key differ in frequency
AscendingWitness ==
  /\ AfterGetHotspots
  /\ Len(ret) >= 2
  /\ FreqOf(ret[1]) < FreqOf(ret[Len(ret)])

\* the result GetHotspots() gives in the current state, after the reads qs
\* (keys; "" stands for GetHotspots(), a key k for IsHotspot(k))
RECURSIVE ReadAfter(_, _)
ReadAfter(r, qs) ==
  IF qs = <<>> THEN trackerGetHotspots(shards, r, numShards, topN).hotspots
  ELSE IF Head(qs) = ""
  THEN ReadAfter(trackerGetHotspots(shards, r, numShards, topN).r, Tail(qs))
  ELSE ReadAfter(trackerIsHotspot(shards, r, numShards, topN, Head(qs)).r, Tail(qs))

\* C12: after a GetHotspots() call, and as long as no RecordRequest runs,
\* GetHotspots() returns the same ordered sequence again, whether it is
\* called at once or after another read.
ReadIdempotence ==
  (phase = "live" /\ lastOp.op = "GetHotspots") =>
    /\ ReadAfter(kfs, <<>>) = ret
    /\ \A q \in Keys \cup {""} : ReadAfter(kfs, <<q>>) = ret

\* C12 witness: a result of two or more keys whose records the call has
\* left with Index -1, so that the next call starts from another state
IdempotenceWitness ==
  /\ AfterGetHotspots
  /\ Len(ret) >= 2
  /\ Cardinality(Tracked) > Len(ret)
  /\ \A k \in Range(ret) :
       kfs[shards[shardIndex(k, numShards)].keyFreqs[k]].Index = -1

Min(a, b) == IF a <= b THEN a ELSE b

\* C14: the aggregate of a quiescent tracker holds min(topN, number of
\* records in the shards) records, each of them a record of some shard with
\* the frequency it has there, and no record left out has a frequency
\* strictly greater than one that is in.
AggregateSelectsTop ==
  Positive =>
    LET a == aggregateShards(shards, kfs, numShards, topN)
        inn == Range(a.s.minHeap)
        all == Live(shards)
    IN /\ Len(a.s.minHeap) = Min(topN, Cardinality(all))
       /\ Cardinality(inn) = Len(a.s.minHeap)
       /\ inn \subseteq all
       /\ \A x \in inn : /\ a.r[x].Frequency = kfs[x].Frequency
                          /\ a.r[x].Key = kfs[x].Key
                          /\ a.s.keyFreqs[kfs[x].Key] = x
       /\ \A x \in all \ inn : \A y \in inn :
            kfs[x].Frequency <= kfs[y].Frequency

\* C14 witness: GetHotspots() has returned topN keys of a tracker with two
\* shards and left out a tracked key that is less frequent than one it returned
SelectsTopWitness ==
  /\ AfterGetHotspots
  /\ numShards = 2
  /\ Len(ret) = topN
  /\ \E k \in Tracked \ Range(ret) : \E j \in Range(ret) : FreqOf(k) < FreqOf(j)

ScenarioOne ==
  /\ \A k \in {"a", "c", "e"} : shardIndex(k, 2) = 0
  /\ \A k \in {"b", "d", "f"} : shardIndex(k, 2) = 1
  /\ pos = Len(ScenarioKeys) =>
       /\ Range(ReadAfter(kfs, <<>>)) = {"a", "b", "d"}
       /\ Len(ReadAfter(kfs, <<>>)) = 3
       /\ \A k \in Range(ScenarioKeys) : IsHotspotNow(k) <=> k \in {"a", "b", "d"}
       /\ FreqOf("a") = 3 /\ FreqOf("b") = 2 /\ FreqOf("d") = 4
       /\ lastOp.op = "GetHotspots" => Range(ret) = {"a", "b", "d"} /\ Len(ret) = 3
       /\ lastOp.op = "IsHotspot" => (found <=> lastOp.key \in {"a", "b", "d"})
       /\ numShards = 1 => Tracked = {"a", "b", "d"}

\* C16 witness: GetHotspots() has returned after the whole sequence on the
\* tracker with two shards, whose shard 0 still tracks e with frequency 2
ScenarioWitness ==
  /\ pos = Len(ScenarioKeys)
  /\ numShards = 2
  /\ lastOp.op = "GetHotspots"
  /\ "e" \in Tracked
  /\ FreqOf("e") = 2

\* C17: a tracker on which nothing was recorded has no hotspots, and in
\* every state the keys GetHotspots() returns and the keys IsHotspot()
\* accepts have all been recorded.
OnlyRecordedKeys ==
  /\ (phase = "live" /\ recorded = {}) =>
       /\ ReadAfter(kfs, <<>>) = <<>>
       /\ \A k \in Keys : ~IsHotspotNow(k)
  /\ lastOp.op = "GetHotspots" => Range(ret) \subseteq recorded
  /\ lastOp.op = "IsHotspot" => (found => lastOp.key \in recorded)
  /\ phase = "live" => \A k \in Keys : IsHotspotNow(k) => k \in recorded

\* C17 witness: after some keys were recorded IsHotspot() was asked about
\* a key that never was, and said no
OnlyRecordedWitness ==
  /\ Positive
  /\ recorded # {}
  /\ lastOp.op = "IsHotspot"
  /\ lastOp.key \notin recorded
  /\ ~found

\* C5: a tracker-level GetHotspots() or IsHotspot(key) leaves every shard
\* as it was: same heap, same lookup table, and the same key, frequency and
\* heapPosition of every tracked record.
ReadsAreSideEffectFree ==
  [][lastOp'.op \in {"GetHotspots", "IsHotspot"} =>
       shards' = shards /\ kfs' = kfs]_vars

\* C6: in every shard the lookup table and the heap hold the same keys, the
\* heap has at most topN records, and the root has the minimum frequency.
ShardInvariant ==
  Positive =>
    \A i \in DOMAIN shards :
      LET s == shards[i]
      IN /\ DOMAIN s.keyFreqs = HeapKeys(s)
         /\ Cardinality(HeapKeys(s)) = Len(s.minHeap)
         /\ \A k \in DOMAIN s.keyFreqs : kfs[s.keyFreqs[k]].Key = k
         /\ Len(s.minHeap) <= topN
         /\ \A j \in 1..Len(s.minHeap) :
              kfs[s.minHeap[1]].Frequency <= kfs[s.minHeap[j]].Frequency

\* the frequencies of the records of a shard
Freqs(s, r) == {r[s.minHeap[i]].Frequency : i \in 1..Len(s.minHeap)}
KeysOf(s) == DOMAIN s.keyFreqs

\* C7: RecordRequest(key) for a key its shard does not track (a) inserts it
\* with frequency 1 when the shard has room, (b) replaces one record of
\* minimum frequency by it when the shard is full and that minimum is <= 1,
\* (c) leaves the shard unchanged otherwise.
AdmissionRule ==
  [][(Positive /\ lastOp'.op = "RecordRequest" /\ phase' = "live") =>
       LET key == lastOp'.key
           i == shardIndex(key, numShards)
           s == shards[i]
           t == shards'[i]
       IN key \notin KeysOf(s) =>
            IF Len(s.minHeap) < topN
            THEN /\ KeysOf(t) = KeysOf(s) \cup {key}
                 /\ kfs'[t.keyFreqs[key]].Frequency = 1
            ELSE IF \E f \in Freqs(s, kfs) : f <= 1
            THEN /\ \E old \in KeysOf(s) :
                      /\ kfs[s.keyFreqs[old]].Frequency <= 1
                      /\ KeysOf(t) = (KeysOf(s) \ {old}) \cup {key}
                 /\ kfs'[t.keyFreqs[key]].Frequency = 1
            ELSE t = s]_vars

\* C8: construction with topN <= 0 or numShards <= 0 never yields a tracker
\* on which operations can be invoked.
ConstructionFailsFast ==
  phase = "live" => topN >= 1 /\ numShards >= 1

\* ------------------------------------------- properties under concurrency
\* C15 for the concurrent callers: whenever no RecordRequest call is in
\* progress on a tracker without the cache, GetHotspots() would return
\* min(topN, number of distinct keys recorded) keys
ResultSizeQuiescent ==
  (~withCache /\ \A t \in Threads : pc[t] \notin {"rr_lock", "rr_cs"}) =>
    Len(trackerGetHotspots(shards, kfs, numShards, topN).hotspots)
      = Min(topN, Cardinality(recorded))

\* ht.mu.Lock() at main.go:151 is called by a goroutine that holds ht.mu in
\* shared mode, so the lock is never free for it: the code after it
\* (main.go:154-159) is never reached and has no step in the model.
UpgradeNeverGranted ==
  \A t \in Threads : pc[t] = "ad_lock" => t \in muReaders /\ ~MuCanLock

\* the frequency, at the moment of return, of a key of goroutine t's aggregate
AggFreq(t, key) == kfs[tShard[t].keyFreqs[key]].Frequency

\* C4: under any interleaving of RecordRequest, GetHotspots and IsHotspot
\* calls (and the timer) no data race occurs, and every completed
\* GetHotspots() has at most topN keys in non-decreasing frequency.
ConcurrencySafety ==
  /\ [](~DataRace)
  /\ [][\A t \in Threads :
          (pc[t] = "read" /\ pc'[t] = "idle" /\ call[t].op = "GetHotspots") =>
             /\ Len(ret') <= topN
             /\ \A i \in 1..(Len(ret') - 1) :
                  AggFreq(t, ret'[i]) <= AggFreq(t, ret'[i + 1])]_vars

\* C9: every call of RecordRequest, GetHotspots or IsHotspot returns, with
\* or without the cache, and none raises an error.
EveryCallReturns ==
  /\ \A t \in Threads : (pc[t] # "idle") ~> (pc[t] = "idle")
  /\ [](phase # "panic")

\* C10: with the cache, every tick makes the wrapper Stale; a read that
\* finds it Stale (the first read does) recomputes and makes it Fresh; a read
\* that finds it Fresh aggregates nothing and takes no shard lock.
CacheStateMachine ==
  /\ [][Tick => update']_vars
  /\ \A t \in Threads :
       (withCache /\ update /\ pc[t] = "ad_rlock") ~> (~update /\ pc[t] = "idle")
  /\ [](withCache /\ ~update => \A t \in Threads : pc[t] \notin {"agg_rlock", "agg_cs"})

\* a GetHotspots() call of goroutine t that meets the cache in state stale
CachedRead(t, stale) ==
  /\ withCache
  /\ update = stale
  /\ pc[t] = "ad_rlock"
  /\ call[t].op = "GetHotspots"

\* C11: with the cache, a read that finds the snapshot stale while keys
\* are tracked returns a result that reflects them, and a read that finds it
\* fresh returns the keys of the stored snapshot, whatever was recorded since.
CacheStaleness ==
  /\ \A t \in Threads :
       (CachedRead(t, TRUE) /\ Tracked # {})
         ~> (lastOp.op = "GetHotspots" /\ ret # <<>>)
  /\ \A t \in Threads :
       CachedRead(t, FALSE)
         ~> (lastOp.op = "GetHotspots" /\ Range(ret) = HeapKeys(cache))

\* C13: on a tracker with the cache, once Close() has run the ticker
\* goroutine terminates, and after that the timer writes the staleness flag
\* no more.
CloseStopsTimer ==
  /\ (stop = "closed") ~> (ticker = "done")
  /\ [](ticker = "done" => ~ENABLED Tick)
  /\ [][ticker = "done" => ticker' = "done"]_vars

\* C13 witness: Close() has run and the ticker goroutine has returned
CloseWitness ==
  /\ withCache
  /\ stop = "closed"
  /\ ticker = "done"

\* the shard locks goroutine t holds
ShardLocksHeld(t) ==
  {i \in DOMAIN sLock : t \in sLock[i].readers \/ sLock[i].writer = t}

\* C18: without the cache a goroutine holds at most one shard lock, holds
\* none while it waits for one, and every goroutine that has entered a call
\* gets each lock it waits for and returns.
NoDeadlockWithoutCache ==
  /\ [](~withCache =>
         \A t \in Threads :
           /\ Cardinality(ShardLocksHeld(t)) <= 1
           /\ pc[t] \in {"rr_lock", "agg_rlock"} => ShardLocksHeld(t) = {})
  /\ \A t \in Threads : (~withCache /\ pc[t] # "idle") ~> (pc[t] = "idle")

\* C18 witness: a writer waits for the lock of the second shard while an
\* aggregation, past the first shard, holds it
NoDeadlockWitness ==
  /\ ~withCache
  /\ \E t, u \in Threads :
       /\ pc[t] = "rr_lock"
       /\ pc[u] = "agg_cs"
       /\ si[u] = 1
       /\ shardIndex(call[t].key, numShards) = 1

\* C19: every step of a RecordRequest(key) call leaves the tracker-wide
\* lock alone, holds no shard lock but that of shard shardIndex(key), and
\* leaves every other shard (its heap, its lookup table, its lock and its
\* records), the staleness flag and the cached snapshot unchanged.
RecordTouchesOnlyItsShard ==
  [][\A t \in Threads :
       ((call[t].op = "RecordRequest" \/ call'[t].op = "RecordRequest")
          /\ pc'[t] # pc[t]) =>
         LET key == IF call[t].op = "RecordRequest"
                    THEN call[t].key ELSE call'[t].key
             i == shardIndex(key, numShards)
         IN /\ muReaders' = muReaders
            /\ t \notin muReaders
            /\ {j \in DOMAIN sLock' : t \in sLock'[j].readers \/ sLock'[j].writer = t}
                 \subseteq {i}
            /\ \A j \in (DOMAIN shards) \ {i} :
                 /\ shards'[j] = shards[j]
                 /\ sLock'[j] = sLock[j]
                 /\ \A x \in Range(shards[j].minHeap) : kfs'[x] = kfs[x]
            /\ update' = update
            /\ cache' = cache]_vars

\* C19 witness: on a tracker with the cache a RecordRequest has returned
\* while the other shard tracks a key too
RecordFrameWitness ==
  /\ withCache
  /\ lastOp.op = "RecordRequest"
  /\ \A i \in DOMAIN shards : shards[i].minHeap # <<>>

\* the goroutines that are inside aggregateShards
Aggregating == {t \in Threads : pc[t] \in {"agg_rlock", "agg_cs"}}

\* C20: with the cache at most one goroutine recomputes at a time, and when
\* readers meet a stale snapshot one of them runs aggregateShards for it
\* and all of them return.
NoDuplicateRecomputation ==
  /\ [](withCache => Cardinality(Aggregating) <= 1)
  /\ \A t \in Threads :
       (withCache /\ update /\ pc[t] = "ad_lock")
         ~> (Aggregating # {} \/ ~update)
  /\ \A t \in Threads :
       (withCache /\ pc[t] = "ad_lock") ~> (pc[t] = "idle")

\* ------------------------------------------------- properties: counting
\* the keys that have a record in the map of a shard
TrackedKeys == {k \in AllKeys : TrackedIn(shards, k)}

\* the address of the record of a tracked key, and its counter
RecordOf(key) ==
  LET i == CHOOSE j \in DOMAIN shards : key \in DOMAIN shards[j].keyFreqs
  IN shards[i].keyFreqs[key]

FrequencyOf(key) == kfs[RecordOf(key)].Frequency

\* this step is the body of shard.RecordRequest(key): the step of a
\* goroutine leaving its critical section or, with a single caller, the
\* whole call
RecordStep(key) ==
  \/ \E t \in Threads :
       pc[t] = "rr_cs" /\ pc'[t] = "idle" /\ call[t].key = key
  \/ /\ UNCHANGED <<wrapper, goroutines>>
     /\ lastOp'.op = "RecordRequest"
     /\ lastOp'.key = key

\* C21: RecordRequest(key) for a tracked key adds exactly 1 to the
\* frequency of its record, changes the frequency of no other record and
\* leaves the set of tracked keys as it was; no step lowers the frequency of
\* a key that stays tracked; and the frequency of every tracked key is the
\* number of RecordRequest calls for it since it was admitted, whatever the
\* interleaving of the callers.
FrequencyCounting ==
  /\ [](\A k \in TrackedKeys : FrequencyOf(k) = calls[k])
  /\ [][\A k \in TrackedKeys :
          /\ (k \in TrackedKeys' /\ RecordOf(k)' = RecordOf(k)) =>
               FrequencyOf(k)' >= FrequencyOf(k)
          /\ (RecordStep(k) /\ phase' = "live") =>
               /\ TrackedKeys' = TrackedKeys
               /\ RecordOf(k)' = RecordOf(k)
               /\ FrequencyOf(k)' = FrequencyOf(k) + 1
               /\ \A x \in (DOMAIN kfs) \ {RecordOf(k)} :
                    x \in DOMAIN kfs' /\ kfs'[x].Frequency = kfs[x].Frequency]_vars

\* C21 witness: two goroutines are in RecordRequest for the same tracked
\* key, one waiting for the shard's lock, and the key has been counted twice
FrequencyCountingWitness ==
  \E t, u \in Threads :
    /\ pc[t] = "rr_cs" /\ pc[u] = "rr_lock"
    /\ call[t].key = call[u].key
    /\ call[t].key \in TrackedKeys
    /\ FrequencyOf(call[t].key) = 2

\* -------------------------------------------------- properties: routing
\* C22: shardIndex(key) depends on the key and the shard count only and
\* lies in 0..shardCount-1; a key is tracked, in the heap or in the map, by
\* no shard but the one shardIndex selects, and by that one once; and no
\* key appears twice in the result of GetHotspots().
RoutingStable ==
  /\ \A k \in Keys, n \in 1..MaxShards : shardIndex(k, n) \in 0..(n - 1)
  /\ \A i \in DOMAIN shards :
       /\ \A k \in HeapKeys(shards[i]) \cup DOMAIN shards[i].keyFreqs :
            i = shardIndex(k, numShards)
       /\ Cardinality(HeapKeys(shards[i])) = Len(shards[i].minHeap)
  /\ AfterGetHotspots => Cardinality(Range(ret)) = Len(ret)

\* C22 witness: GetHotspots() has returned keys of two shards, one of which
\* was routed to its shard at least twice
RoutingWitness ==
  /\ AfterGetHotspots
  /\ numShards = 2
  /\ \A i \in DOMAIN shards : shards[i].minHeap # <<>>
  /\ Len(ret) >= 2
  /\ \E k \in TrackedKeys : FrequencyOf(k) >= 2

\* ------------------------------------------------- properties: eviction
\* a shard that is full and whose records have all been counted twice
Settled(s) ==
  /\ Len(s.minHeap) >= s.topN
  /\ \A x \in Range(s.minHeap) : kfs[x].Frequency >= 2

\* C23: a key that a step removes from its shard had frequency exactly 1
\* before that step; a key whose frequency is 2 or more stays tracked, by
\* the same record; and a full shard whose records all have frequency 2 or
\* more keeps its set of keys whatever is requested.
FrequentKeysStay ==
  [][/\ \A k \in TrackedKeys :
          /\ k \notin TrackedKeys' => FrequencyOf(k) = 1
          /\ FrequencyOf(k) >= 2 =>
               k \in TrackedKeys' /\ RecordOf(k)' = RecordOf(k)
     /\ \A i \in DOMAIN shards :
          Settled(shards[i]) =>
            /\ DOMAIN shards'[i].keyFreqs = DOMAIN shards[i].keyFreqs
            /\ HeapKeys(shards[i])' = HeapKeys(shards[i])]_vars

\* C23 witness: a key was evicted earlier, and the request that ran last
\* was for a key that its shard, full of records of frequency 2 or more,
\* did not admit
FrequentKeysWitness ==
  /\ Positive
  /\ lastOp.op = "RecordRequest"
  /\ lastOp.key \notin TrackedKeys
  /\ Settled(shards[shardIndex(lastOp.key, numShards)])
  /\ Cardinality(recorded \ TrackedKeys) >= 2

\* --------------------------------------- properties: unsharded tracker
\* C24: after every step the sharded tracker with one shard and the
\* unsharded tracker with the same topN track the same keys with the same
\* frequencies, and an IsHotspot answer of the one is that of the other.
SingleShardEquivalence ==
  /\ DOMAIN shards[0].keyFreqs = DOMAIN unsharded.keyFreqs
  /\ \A k \in (DOMAIN shards[0].keyFreqs) \cap (DOMAIN unsharded.keyFreqs) :
       kfs[shards[0].keyFreqs[k]].Frequency
         = ukfs[unsharded.keyFreqs[k]].Frequency
  /\ lastOp.op = "IsHotspot" => found = unshardedIsHotspot(unsharded, lastOp.key)

\* ------------------------------------------------ properties: exactness
\* no shard has been given more distinct keys than it can hold
NoOverflow ==
  \A i \in DOMAIN shards :
    Cardinality({k \in recorded : shardIndex(k, numShards) = i}) <= topN

\* C25: while no shard has been given more than topN distinct keys, every
\* recorded key is tracked with a frequency equal to the number of its
\* requests, and GetHotspots() returns min(topN, recorded keys) recorded
\* keys none of which has fewer requests than a recorded key left out.
ExactWithoutOverflow ==
  (Positive /\ NoOverflow) =>
    /\ TrackedKeys = recorded
    /\ \A k \in recorded : FrequencyOf(k) = requests[k]
    /\ lastOp.op = "GetHotspots" =>
         /\ Range(ret) \subseteq recorded
         /\ Len(ret) = Min(topN, Cardinality(recorded))
         /\ \A k \in recorded \ Range(ret), j \in Range(ret) :
              requests[k] <= requests[j]

\* C25 witness: two shards hold more keys than topN without overflowing,
\* and GetHotspots() has left out a key with fewer requests than one it
\* returned
ExactWitness ==
  /\ Positive
  /\ NoOverflow
  /\ numShards = 2
  /\ lastOp.op = "GetHotspots"
  /\ Cardinality(recorded) > topN
  /\ \E k \in recorded \ Range(ret), j \in Range(ret) : requests[k] < requests[j]

====
